---- MODULE Spec2Model ----
(***************************************************************************)
(* A model of sand.Client (src/sand.go): the token broker (Token,          *)
(* oauthToken, cacheKey) and the request orchestrator (Request,            *)
(* RequestWithCustomRetry), run by one or two concurrent callers over one  *)
(* shared cache backend.                                                   *)
(*                                                                         *)
(* Every caller is a small-step process: one step per cache operation,     *)
(* token exchange, downstream invocation and sleep, in the order of the    *)
(* code.  What the collaborators answer (the token endpoint, the           *)
(* downstream callback, the clock) is chosen nondeterministically.  Each   *)
(* caller keeps a log of the operations it issued (Ev, Logged), which is   *)
(* what the properties at the end of the module read; the log is not       *)
(* state of the program.                                                   *)
(***************************************************************************)
EXTENDS Integers, Sequences, FiniteSets

VARIABLES
    c,      \* the Client: its configuration fields
    cache,  \* the cache backend: a map from the cache keys it holds to tokens
    now,    \* the wall clock at the latest time.Now(), in ticks
    fr,     \* fr[p]: the frame of caller p (position, arguments, locals, results)
    log     \* log[p]: the operations caller p has issued, in order

vars == <<c, cache, now, fr, log>>

(***************************************************************************)
(* Bounds of the model.                                                    *)
(***************************************************************************)
\* the largest numRetry a caller passes, and the largest MaxRetry configured
MaxNumRetry == 2
\* the clock reads 0 to MaxNow ticks; expiry instants lie in the same range
MaxNow == 2
\* clock ticks per second: instants are finer than the seconds Unix() returns
TicksPerSecond == 2

\* Go's nil (a nil interface, a nil pointer, a nil error)
Nil == <<>>

Procs == {1, 2}

(***************************************************************************)
(* Input domains.                                                          *)
(***************************************************************************)
\* caller keys: the empty key means "do not cache this call"
Keys == {"", "a"}
\* scope sets: ordered sequences of scope identifiers
ScopeSets == {<< >>, <<"s1", "s2">>}
\* the non-empty access tokens the token endpoint hands out
Tokens == {"T1", "T2"}
\* errors of one exchange attempt (clientcredentials.Config.Token)
ExchangeErrors ==
    { [kind |-> "transport", msg |-> "dial tcp: i/o timeout"],
      [kind |-> "rejected",  msg |-> "oauth2: cannot fetch token: 401"] }
\* the transport error of the downstream callback
ExecError == [kind |-> "transport", msg |-> "connection refused"]
\* http.StatusUnauthorized
StatusUnauthorized == 401
\* response statuses of the downstream callback
Statuses == {200, StatusUnauthorized, 502}

(***************************************************************************)
(* time.Time: the zero value, or an instant in ticks.                      *)
(***************************************************************************)
ZeroTime == [zero |-> TRUE, wall |-> 0]
At(t) == [zero |-> FALSE, wall |-> t]
IsZero(t) == t.zero
\* Time.Unix(): whole seconds, the sub-second part dropped
Unix(t) == t.wall \div TicksPerSecond
Expiries == {ZeroTime} \cup {At(t) : t \in 0..MaxNow}

(***************************************************************************)
(* Pure helpers of the client.                                             *)
(***************************************************************************)
\* strings.Join
RECURSIVE Join(_, _)
Join(elems, sep) ==
    IF Len(elems) = 0 THEN ""
    ELSE IF Len(elems) = 1 THEN elems[1]
    ELSE elems[1] \o sep \o Join(Tail(elems), sep)

\* Client.cacheKey: <CacheRoot>/<cacheType>/<key>[/<scope1>_<scope2>_...]
cacheKey(key, scopes) ==
    LET rv == c.CacheRoot \o "/" \o c.cacheType \o "/" \o key
    IN  IF Len(scopes) > 0 THEN rv \o "/" \o Join(scopes, "_") ELSE rv

\* a backoff that starts one step late: 2, 4, 8, ...
BackoffLate(retry) == 2 ^ (retry + 1)

\* the wait before retry number `retry`, in seconds: math.Pow(2, retry)
Backoff(retry) == 2 ^ retry

\* the guard without its test of the caller key
CacheEngagedAnyKey(key) == c.Cache

\* the guard of both cache blocks of Token: c.Cache != nil && cacheKey != ""
CacheEngaged(key) == c.Cache /\ key # ""

\* a resolution that takes 0 for "not given" as well
\* a negative numRetry clamped to no retry at all
ResolveRetryNegativeIsZero(numRetry) == IF numRetry < 0 THEN 0 ELSE numRetry

ResolveRetryZeroToo(numRetry) == IF numRetry <= 0 THEN c.MaxRetry ELSE numRetry

\* numRetry < 0 selects the client's MaxRetry
ResolveRetry(numRetry) == IF numRetry < 0 THEN c.MaxRetry ELSE numRetry

\* a loop condition that allows one retry too many
RetryUnauthorizedOneMore(resp, retry, numRetry) ==
    resp[1].StatusCode = StatusUnauthorized /\ retry <= numRetry

\* a loop condition that retries on every status but 200
RetryUnauthorizedAnyFailure(resp, retry, numRetry) ==
    resp[1].StatusCode # 200 /\ retry < numRetry

\* the loop condition of the unauthorized-retry loop
RetryUnauthorized(resp, retry, numRetry) ==
    resp[1].StatusCode = StatusUnauthorized /\ retry < numRetry

\* a loop condition that allows one attempt too many
RetryExchangeOneMore(err, retry, numRetry) == err # Nil /\ retry <= numRetry

\* a loop condition that gives up on a transport error
RetryExchangeNotTransport(err, retry, numRetry) ==
    err # Nil /\ err[1].kind # "transport" /\ retry < numRetry

\* the loop condition of the exchange-retry loop
RetryExchange(err, retry, numRetry) == err # Nil /\ retry < numRetry

\* the difference taken between the instants, not between their seconds
ExpiresInTicks(expiry, timeNow) ==
    IF ~IsZero(expiry) THEN expiry.wall - timeNow.wall ELSE 0

\* expiresIn of Token: 0 for a zero expiry, else the seconds from timeNow to it
ExpiresIn(expiry, timeNow) ==
    IF ~IsZero(expiry) THEN Unix(expiry) - Unix(timeNow) ELSE 0

\* what time.Now() may return: the clock never runs backwards
TimeNow == {At(t) : t \in now .. MaxNow}

\* AuthenticationError{msg}
AuthenticationError(msg) == [kind |-> "AuthenticationError", msg |-> msg]

(***************************************************************************)
(* The cache backend (cache.Cache): read, write, delete on a map.          *)
(***************************************************************************)
CacheRead(k) == IF k \in DOMAIN cache THEN <<cache[k]>> ELSE Nil
CacheWrite(k, v) == [x \in DOMAIN cache \cup {k} |-> IF x = k THEN v ELSE cache[x]]
CacheDelete(k) == [x \in DOMAIN cache \ {k} |-> cache[x]]
EmptyCache == [x \in {} |-> ""]

(***************************************************************************)
(* The log of a caller: one entry per operation it issued.                 *)
(*   Token    a call of Token: key = the caller key, n = numRetry          *)
(*   read     key, val = what the read returned (Nil or <<token>>)         *)
(*   write    key, val = <<token>>, n = TTL in seconds (0: no expiration)  *)
(*   delete   key                                                          *)
(*   exchange one attempt: val = <<access token>> and key = "" when it     *)
(*            succeeded, val = Nil and key = the error's message when not  *)
(*   sleep    n = seconds, key = the loop that sleeps ("exchange", "401")  *)
(*   exec     val = <<token passed>>, n = status returned (0: transport    *)
(*            error)                                                       *)
(***************************************************************************)
Ev(op, key, val, n) == [op |-> op, key |-> key, val |-> val, n |-> n]
Logged(p, es) == log' = [log EXCEPT ![p] = @ \o es]

\* the entries of log s with operation op, in order
SelectOp(s, op) == SelectSeq(s, LAMBDA e : e.op = op)
Count(s, op) == Cardinality({i \in 1 .. Len(s) : s[i].op = op})

(***************************************************************************)
(* Frames.                                                                 *)
(***************************************************************************)
IdleFrame ==
    [ pc        |-> "idle",   \* position of the caller in the code
      entry     |-> "",       \* the exported function the caller called
      key       |-> "",       \* argument cacheKey
      scopes    |-> << >>,    \* argument scopes
      arg       |-> 0,        \* argument numRetry, as passed
      numRetry  |-> 0,        \* RequestWithCustomRetry: numRetry, resolved
      retry     |-> 0,        \* RequestWithCustomRetry: the loop counter
      inLoop    |-> FALSE,    \* RequestWithCustomRetry: inside the retry loop
      token     |-> "",       \* RequestWithCustomRetry: token
      resp      |-> Nil,      \* RequestWithCustomRetry: resp
      execs     |-> 0,        \* downstream invocations made so far
      tNumRetry |-> 0,        \* Token: argument numRetry
      expiresIn |-> 0,        \* Token: expiresIn
      oNumRetry |-> 0,        \* oauthToken: numRetry, resolved
      oRetry    |-> 0,        \* oauthToken: the loop counter
      oToken    |-> Nil,      \* oauthToken: token (Nil or <<oauth2.Token>>)
      oErr      |-> Nil,      \* oauthToken: err
      rToken    |-> "",       \* returned to the caller: Token's string
      rResp     |-> Nil,      \* returned to the caller: the response
      rErr      |-> Nil ]     \* returned to the caller: the error

Set(p, f) == fr' = [fr EXCEPT ![p] = f]

(***************************************************************************)
(* What the collaborators may answer.                                      *)
(***************************************************************************)
\* one exchange attempt: (token, nil) or (nil, err)
ExchangeOutcomes ==
    { [token |-> <<[AccessToken |-> x[1], Expiry |-> x[2]]>>, err |-> Nil] :
        x \in (Tokens \X Expiries) \cup {<<"", ZeroTime>>} }
    \cup { [token |-> Nil, err |-> <<e>>] : e \in ExchangeErrors }

\* one downstream invocation, the seq-th of the caller: (resp, nil) or (nil, err)
ExecOutcomes(seq) ==
    { [resp |-> <<[StatusCode |-> st, seq |-> seq]>>, err |-> Nil] : st \in Statuses }
    \cup { [resp |-> Nil, err |-> <<ExecError>>] }

(***************************************************************************)
(* The exported functions: a caller enters one of them.                    *)
(***************************************************************************)
\* RequestWithCustomRetry up to its call of Token (lines 84-88)
Enter(p, entry, key, scopes, arg, numRetry) ==
    /\ fr[p].pc = "idle"
    /\ Set(p, [IdleFrame EXCEPT !.pc = "Token_read", !.entry = entry, !.key = key,
                                !.scopes = scopes, !.arg = arg,
                                !.numRetry = numRetry, !.tNumRetry = numRetry])
    /\ Logged(p, <<Ev("Token", key, Nil, numRetry)>>)
    /\ UNCHANGED <<c, cache, now>>

RequestWithCustomRetry(p, key, scopes, numRetry) ==
    Enter(p, "RequestWithCustomRetry", key, scopes, numRetry, ResolveRetry(numRetry))

Request(p, key, scopes) ==
    Enter(p, "Request", key, scopes, c.MaxRetry, ResolveRetry(c.MaxRetry))

Token(p, key, scopes, numRetry) ==
    Enter(p, "Token", key, scopes, numRetry, numRetry)

(***************************************************************************)
(* Token returns (tok, err) to where it was called from: to the caller of  *)
(* the exported Token, or into RequestWithCustomRetry (lines 88-91 before  *)
(* the loop, lines 109-112 inside it).                                     *)
(***************************************************************************)
TokenReturns(f, tok, err) ==
    LET \* the locals of Token and oauthToken end with the call
        g == [f EXCEPT !.tNumRetry = 0, !.expiresIn = 0,
                       !.oNumRetry = 0, !.oRetry = 0,
                       !.oToken = Nil, !.oErr = Nil]
    IN  IF f.entry = "Token"
        THEN [g EXCEPT !.pc = "done", !.rToken = tok, !.rErr = err]
        ELSE IF err # Nil
        THEN [g EXCEPT !.pc = "done", !.rErr = err,
                       !.rResp = IF f.inLoop THEN f.resp ELSE Nil]
        ELSE [g EXCEPT !.pc = "exec", !.token = tok]

\* a lookup whose result is never taken
HitIgnored(token) == FALSE

\* line 127: the cache read found a token
Hit(token) == token # Nil

\* Token, lines 125-130: the cache lookup
TokenCacheRead(p) ==
    LET f == fr[p]
        k == cacheKey(f.key, f.scopes)
        token == CacheRead(k)
    IN  /\ f.pc = "Token_read"
        /\ IF CacheEngaged(f.key)
           THEN /\ Logged(p, <<Ev("read", k, token, 0)>>)
                /\ IF Hit(token)
                   THEN Set(p, TokenReturns(f, token[1], Nil))
                   ELSE Set(p, [f EXCEPT !.pc = "oauthToken"])
           ELSE /\ Set(p, [f EXCEPT !.pc = "oauthToken"])
                /\ UNCHANGED log
        /\ UNCHANGED <<c, cache, now>>

\* where oauthToken goes after an exchange attempt: into (or on with) the retry
\* loop of lines 170-178, or out of it
AfterExchange(err, retry, numRetry) ==
    IF numRetry > 0 /\ RetryExchange(err, retry, numRetry)
    THEN "oauthToken_sleep"
    ELSE "Token_store"

\* the log entry of an exchange attempt that ended as o
ExchangeEv(o) ==
    IF o.err = Nil
    THEN Ev("exchange", "", <<o.token[1].AccessToken>>, 0)
    ELSE Ev("exchange", o.err[1].msg, Nil, 0)

\* oauthToken, lines 153-170: the first exchange attempt
OauthTokenExchange(p) ==
    LET f == fr[p]
        numRetry == ResolveRetry(f.tNumRetry)
    IN  /\ f.pc = "oauthToken"
        /\ \E o \in ExchangeOutcomes :
            /\ Set(p, [f EXCEPT !.oNumRetry = numRetry, !.oRetry = 0,
                                !.oToken = o.token, !.oErr = o.err,
                                !.pc = AfterExchange(o.err, 0, numRetry)])
            /\ Logged(p, <<ExchangeEv(o)>>)
        /\ UNCHANGED <<c, cache, now>>

\* oauthToken, lines 171-175: the backoff sleep of the exchange-retry loop
OauthTokenSleep(p) ==
    LET f == fr[p]
    IN  /\ f.pc = "oauthToken_sleep"
        /\ Set(p, [f EXCEPT !.pc = "oauthToken_retry"])
        /\ Logged(p, <<Ev("sleep", "exchange", Nil, Backoff(f.oRetry))>>)
        /\ UNCHANGED <<c, cache, now>>

\* oauthToken, lines 176-177 and the loop header 171: one more attempt
OauthTokenRetry(p) ==
    LET f == fr[p]
    IN  /\ f.pc = "oauthToken_retry"
        /\ \E o \in ExchangeOutcomes :
            /\ Set(p, [f EXCEPT !.oRetry = f.oRetry + 1,
                                !.oToken = o.token, !.oErr = o.err,
                                !.pc = AfterExchange(o.err, f.oRetry + 1, f.oNumRetry)])
            /\ Logged(p, <<ExchangeEv(o)>>)
        /\ UNCHANGED <<c, cache, now>>

\* the same, an empty access token taken as any other
TokenStoreNoEmptyCheck(p) ==
    LET f == fr[p]
    IN  /\ f.pc = "Token_store"
        /\ IF f.oErr # Nil
           THEN /\ Set(p, TokenReturns(f, "", <<AuthenticationError(f.oErr[1].msg)>>))
                /\ UNCHANGED now
           ELSE IF CacheEngaged(f.key)
           THEN \E timeNow \in (IF IsZero(f.oToken[1].Expiry)
                                THEN {At(now)} ELSE TimeNow) :
                    /\ now' = timeNow.wall
                    /\ Set(p, [f EXCEPT !.pc = "Token_write",
                                        !.expiresIn =
                                            ExpiresIn(f.oToken[1].Expiry, timeNow)])
           ELSE /\ Set(p, TokenReturns(f, f.oToken[1].AccessToken, Nil))
                /\ UNCHANGED now
        /\ UNCHANGED <<c, cache, log>>

\* oauthToken, lines 179-182, and Token, lines 131-143: the error is wrapped,
\* an empty access token refused, and with the cache engaged the clock is read
\* (time.Now(), line 142) and expiresIn computed; without it the token is
\* returned (line 148)
TokenStore(p) ==
    LET f == fr[p]
    IN  /\ f.pc = "Token_store"
        /\ IF f.oErr # Nil
           THEN /\ Set(p, TokenReturns(f, "", <<AuthenticationError(f.oErr[1].msg)>>))
                /\ UNCHANGED now
           ELSE IF f.oToken[1].AccessToken = ""
           THEN /\ Set(p, TokenReturns(f, "", <<AuthenticationError("Invalid access token")>>))
                /\ UNCHANGED now
           ELSE IF CacheEngaged(f.key)
           THEN \E timeNow \in (IF IsZero(f.oToken[1].Expiry)
                                THEN {At(now)} ELSE TimeNow) :
                    /\ now' = timeNow.wall
                    /\ Set(p, [f EXCEPT !.pc = "Token_write",
                                        !.expiresIn =
                                            ExpiresIn(f.oToken[1].Expiry, timeNow)])
           ELSE /\ Set(p, TokenReturns(f, f.oToken[1].AccessToken, Nil))
                /\ UNCHANGED now
        /\ UNCHANGED <<c, cache, log>>

\* Token, lines 144-148: the write to the cache, a step of its own after the
\* clock reading (no lock is held between the two), and the return
TokenWrite(p) ==
    LET f == fr[p]
        k == cacheKey(f.key, f.scopes)
    IN  /\ f.pc = "Token_write"
        /\ Set(p, TokenReturns(f, f.oToken[1].AccessToken, Nil))
        /\ IF f.expiresIn >= 0
           THEN /\ cache' = CacheWrite(k, f.oToken[1].AccessToken)
                /\ Logged(p, <<Ev("write", k, <<f.oToken[1].AccessToken>>,
                                  f.expiresIn)>>)
           ELSE UNCHANGED <<cache, log>>
        /\ UNCHANGED <<c, now>>

(***************************************************************************)
(* RequestWithCustomRetry after its token fetch.                           *)
(***************************************************************************)
\* lines 92-99 (the first invocation) and 113-117, 99 (one inside the loop):
\* exec(token), then the error check, then the loop condition
\* the same, the transport error dropped on return
AfterExecErrorDropped(f, o) ==
    LET retry == IF f.inLoop THEN f.retry + 1 ELSE 0
        g == [f EXCEPT !.execs = f.execs + 1, !.resp = o.resp]
    IN  IF o.err # Nil
        THEN [g EXCEPT !.pc = "done", !.rResp = o.resp, !.rErr = Nil]
        ELSE IF f.numRetry > 0 /\ RetryUnauthorized(o.resp, retry, f.numRetry)
        THEN [g EXCEPT !.pc = "sleep", !.retry = retry, !.inLoop = TRUE]
        ELSE [g EXCEPT !.pc = "done", !.rResp = o.resp, !.rErr = Nil]

\* what follows exec(token): the error check (lines 93-95, 114-116), the loop
\* condition (lines 96, 99), the return (line 119)
AfterExec(f, o) ==
    LET retry == IF f.inLoop THEN f.retry + 1 ELSE 0
        g == [f EXCEPT !.execs = f.execs + 1, !.resp = o.resp]
    IN  IF o.err # Nil
        THEN [g EXCEPT !.pc = "done", !.rResp = o.resp, !.rErr = o.err]
        ELSE IF f.numRetry > 0 /\ RetryUnauthorized(o.resp, retry, f.numRetry)
        THEN [g EXCEPT !.pc = "sleep", !.retry = retry, !.inLoop = TRUE]
        ELSE [g EXCEPT !.pc = "done", !.rResp = o.resp, !.rErr = Nil]

Exec(p) ==
    LET f == fr[p]
    IN  /\ f.pc = "exec"
        /\ \E o \in ExecOutcomes(f.execs + 1) :
            /\ Logged(p, <<Ev("exec", "", <<f.token>>,
                              IF o.err = Nil THEN o.resp[1].StatusCode ELSE 0)>>)
            /\ Set(p, AfterExec(f, o))
        /\ UNCHANGED <<c, cache, now>>

\* lines 100-102: the backoff sleep of the unauthorized-retry loop
RetrySleep(p) ==
    LET f == fr[p]
    IN  /\ f.pc = "sleep"
        /\ Set(p, [f EXCEPT !.pc = "evict"])
        /\ Logged(p, <<Ev("sleep", "401", Nil, Backoff(f.retry))>>)
        /\ UNCHANGED <<c, cache, now>>

\* the same, the token fetched with the retry budget of the request
RetryEvictKeepsBudget(p) ==
    LET f == fr[p]
        k == cacheKey(f.key, f.scopes)
    IN  /\ f.pc = "evict"
        /\ Set(p, [f EXCEPT !.pc = "Token_read", !.tNumRetry = f.numRetry])
        /\ IF c.Cache
           THEN /\ cache' = CacheDelete(k)
                /\ Logged(p, <<Ev("delete", k, Nil, 0),
                               Ev("Token", f.key, Nil, f.numRetry)>>)
           ELSE /\ UNCHANGED cache
                /\ Logged(p, <<Ev("Token", f.key, Nil, f.numRetry)>>)
        /\ UNCHANGED <<c, now>>

\* lines 103-109: the eviction, then the call of Token with numRetry 0
RetryEvict(p) ==
    LET f == fr[p]
        k == cacheKey(f.key, f.scopes)
    IN  /\ f.pc = "evict"
        /\ Set(p, [f EXCEPT !.pc = "Token_read", !.tNumRetry = 0])
        /\ IF c.Cache
           THEN /\ cache' = CacheDelete(k)
                /\ Logged(p, <<Ev("delete", k, Nil, 0), Ev("Token", f.key, Nil, 0)>>)
           ELSE /\ UNCHANGED cache
                /\ Logged(p, <<Ev("Token", f.key, Nil, 0)>>)
        /\ UNCHANGED <<c, now>>

\* one step of a caller inside the function it entered
Step(p) ==
    \/ TokenCacheRead(p)
    \/ OauthTokenExchange(p)
    \/ OauthTokenSleep(p)
    \/ OauthTokenRetry(p)
    \/ TokenStore(p)
    \/ TokenWrite(p)
    \/ Exec(p)
    \/ RetrySleep(p)
    \/ RetryEvict(p)

(***************************************************************************)
(* One caller.                                                             *)
(***************************************************************************)
\* tokens found in the cache at the start: left by an earlier call
StaleTokens == {"T0"}
NumRetries == -1 .. MaxNumRetry

\* the client as NewClient returns it (CacheRoot "sand", cacheType
\* "resources"), with MaxRetry and Cache as the owner set them: no retries or
\* the most, no cache or one
Clients ==
    [ MaxRetry : {0, MaxNumRetry}, Cache : BOOLEAN,
      CacheRoot : {"sand"}, cacheType : {"resources"} ]

\* the cache keys of the callers that cache
CacheKeys == {cacheKey(k, s) : k \in Keys \ {""}, s \in ScopeSets}

\* the cache starts empty, or holds a token of an earlier call under every key
Init ==
    /\ c \in Clients
    /\ \/ cache = EmptyCache
       \/ \E t \in StaleTokens : cache = [x \in CacheKeys |-> t]
    /\ now = 0
    /\ fr = [p \in Procs |-> IdleFrame]
    /\ log = [p \in Procs |-> << >>]

Call(p) ==
    \E key \in Keys, scopes \in ScopeSets :
        \/ Request(p, key, scopes)
        \/ \E numRetry \in NumRetries :
            \/ RequestWithCustomRetry(p, key, scopes, numRetry)
            \/ Token(p, key, scopes, numRetry)

Next ==
    \/ Call(1)
    \/ Step(1)

Spec == Init /\ [][Next]_vars

\* One caller of RequestWithCustomRetry whose goroutine keeps running: a call
\* that can take a step takes one (sleeps end, the exchanger and the downstream
\* call return).
CallLive(p) ==
    \E key \in Keys, numRetry \in NumRetries :
        RequestWithCustomRetry(p, key, << >>, numRetry)

NextLive ==
    \/ CallLive(1)
    \/ Step(1)

SpecLive == Init /\ [][NextLive]_vars /\ WF_vars(Step(1))

(***************************************************************************)
(* Two concurrent callers on one cache, the same caller key and scopes.    *)
(***************************************************************************)
ConcKey == "a"
ConcScopes == << >>

InitConc ==
    /\ c \in {cl \in Clients : cl.Cache /\ cl.MaxRetry = 0}
    /\ \/ cache = EmptyCache
       \/ \E t \in StaleTokens : cache = [x \in {cacheKey(ConcKey, ConcScopes)} |-> t]
    /\ now = 0
    /\ fr = [p \in Procs |-> IdleFrame]
    /\ log = [p \in Procs |-> << >>]

\* caller 1 makes a request and retries once on 401; caller 2 makes a request
\* or fetches a token, without retries
CallConc(p) ==
    \/ RequestWithCustomRetry(p, ConcKey, ConcScopes, IF p = 1 THEN 1 ELSE 0)
    \/ p = 2 /\ Token(p, ConcKey, ConcScopes, 0)

NextConc ==
    \/ \E p \in Procs : CallConc(p)
    \/ \E p \in Procs : Step(p)

SpecConc == InitConc /\ [][NextConc]_vars

(***************************************************************************)
(* The cache keys of two callers of Token.  Caller keys and scope          *)
(* identifiers are any strings: a caller key may hold the "/" and a scope  *)
(* identifier the "_" that cacheKey puts between the parts.  Both callers  *)
(* share a cache that starts empty and fetch with no retry.                *)
(***************************************************************************)
\* scope identifiers with a "_" inside
CompoundIds == {"a" \o "_" \o "a"}
KeyInputs == {"a", "a" \o "/" \o "b"}
ScopeInputs ==
    { << >>, <<"b">>, <<"s1", "s2">>, <<"s2", "s1">> }
    \cup {<<"a", x>> : x \in CompoundIds} \cup {<<x, "a">> : x \in CompoundIds}

InitKey ==
    /\ c \in {x \in Clients : x.Cache /\ x.MaxRetry = 0}
    /\ cache = EmptyCache
    /\ now = 0
    /\ fr = [p \in Procs |-> IdleFrame]
    /\ log = [p \in Procs |-> << >>]

CallKey(p) ==
    \E key \in KeyInputs, scopes \in ScopeInputs : Token(p, key, scopes, 0)

StepKey(p) ==
    \/ TokenCacheRead(p)
    \/ OauthTokenExchange(p)
    \/ TokenStore(p)
    \/ TokenWrite(p)

NextKey ==
    \/ \E p \in Procs : CallKey(p)
    \/ \E p \in Procs : StepKey(p)

SpecKey == InitKey /\ [][NextKey]_vars

(***************************************************************************)
(* Reading a log.                                                          *)
(***************************************************************************)
\* the operations of a log, in order
Kinds(s) == [i \in 1 .. Len(s) |-> s[i].op]

\* the operations of a log that RequestWithCustomRetry issues itself (calls of
\* Token, downstream invocations, sleeps, evictions), in order: what a call
\* of Token does inside is left out
RECURSIVE Outer(_)
Outer(s) ==
    IF s = << >> THEN << >>
    ELSE IF s[1].op \in {"read", "exchange", "write"} THEN Outer(Tail(s))
    ELSE IF s[1].op = "sleep" /\ s[1].key = "exchange" THEN Outer(Tail(s))
    ELSE <<s[1].op>> \o Outer(Tail(s))

\* the n fields of a log
Ns(s) == [i \in 1 .. Len(s) |-> s[i].n]
\* 2^0, 2^1, ..., 2^(k-1)
Powers(k) == [i \in 1 .. k |-> 2 ^ (i - 1)]
\* how many entries of s have n = v
RECURSIVE CountN(_, _)
CountN(s, v) ==
    IF s = << >> THEN 0
    ELSE (IF s[1].n = v THEN 1 ELSE 0) + CountN(Tail(s), v)

\* k retry steps of the unauthorized-retry loop, each a sleep, an eviction, a
\* token fetch and a downstream invocation
RECURSIVE RetrySteps(_)
RetrySteps(k) ==
    IF k = 0 THEN << >>
    ELSE <<"sleep", "delete", "Token", "exec">> \o RetrySteps(k - 1)

IsRequest(f) == f.entry \in {"Request", "RequestWithCustomRetry"}
\* every exchange attempt in the log returned a non-empty access token
ExchangesSucceed(s) ==
    \A i \in 1 .. Len(s) : s[i].op = "exchange" => s[i].val \notin {Nil, <<"">>}
\* no downstream invocation in the log ended in a transport error
NoTransportError(s) ==
    \A i \in 1 .. Len(s) : s[i].op = "exec" => s[i].n # 0

(***************************************************************************)
(* C1.  A request with a cache, a non-empty caller key and numRetry n > 0, *)
(* whose exchanges all succeed and whose downstream call answers 401 on    *)
(* its first k invocations (1 <= k <= n) and something else on the next:   *)
(* it makes exactly k+1 invocations, sleeps exactly k times, for 1, 2, ... *)
(* 2^(k-1) seconds in that order, evicts exactly k times, and returns the  *)
(* (k+1)-th response with a nil error; each retry step is sleep, evict,    *)
(* token fetch, downstream call, in that order.                            *)
(***************************************************************************)
C1_RetrySchedule ==
    LET f == fr[1]
        l == log[1]
        E == SelectOp(l, "exec")
        k == CountN(E, StatusUnauthorized)
    IN  ( /\ f.pc = "done" /\ IsRequest(f)
          /\ c.Cache /\ f.key # "" /\ f.numRetry > 0
          /\ ExchangesSucceed(l) /\ NoTransportError(l)
          /\ k \in 1 .. f.numRetry )
        => /\ Len(E) = k + 1
           /\ \A i \in 1 .. k : E[i].n = StatusUnauthorized
           /\ E[k + 1].n # StatusUnauthorized
           /\ Ns(SelectOp(l, "sleep")) = Powers(k)
           /\ Count(l, "delete") = k
           /\ f.rResp = <<[StatusCode |-> E[k + 1].n, seq |-> k + 1]>>
           /\ f.rErr = Nil
           /\ Outer(l) = <<"Token", "exec">> \o RetrySteps(k)

\* a request with numRetry 2 answered 401, 401, 200: it slept 1 s and 2 s
C1_Witness ==
    /\ fr[1].pc = "done" /\ fr[1].entry = "RequestWithCustomRetry"
    /\ c.Cache /\ fr[1].key # "" /\ fr[1].numRetry = 2
    /\ ExchangesSucceed(log[1])
    /\ Ns(SelectOp(log[1], "exec")) = <<StatusUnauthorized, StatusUnauthorized, 200>>
    /\ Ns(SelectOp(log[1], "sleep")) = <<1, 2>>
    /\ fr[1].rResp = <<[StatusCode |-> 200, seq |-> 3]>>

(***************************************************************************)
(* C2.  A cache hit short-circuits the exchange: when a cache read of      *)
(* Token returns a value, Token returns exactly that value with a nil      *)
(* error, and the read is the last operation of that Token call: no        *)
(* exchange, no sleep, no cache write and no eviction follow it (inside a  *)
(* request the next operation is the downstream call with that token).     *)
(***************************************************************************)
C2_CacheHitShortCircuits ==
    LET f == fr[1]
        l == log[1]
    IN  \A i \in 1 .. Len(l) :
            (l[i].op = "read" /\ l[i].val # Nil)
            => IF f.entry = "Token"
               THEN /\ i = Len(l) /\ f.pc = "done"
                    /\ f.rToken = l[i].val[1] /\ f.rErr = Nil
               ELSE IF i = Len(l)
               THEN f.pc = "exec" /\ f.token = l[i].val[1]
               ELSE l[i + 1].op = "exec" /\ l[i + 1].val = l[i].val

\* Token found T0 in the cache and returned it after the read alone
C2_Witness ==
    /\ fr[1].pc = "done" /\ fr[1].entry = "Token"
    /\ Kinds(log[1]) = <<"Token", "read">>
    /\ log[1][2].val = <<"T0">>
    /\ fr[1].rToken = "T0" /\ fr[1].rErr = Nil

(***************************************************************************)
(* C3.  Token with an empty caller key never reads or writes the cache,    *)
(* even with a cache configured: no step of the call changes the cache,    *)
(* the call issues no cache read, write or delete, and it always invokes   *)
(* the exchanger.                                                          *)
(***************************************************************************)
C3_EmptyKeyBypassesCache ==
    [][ (fr'[1].entry = "Token" /\ fr'[1].key = "")
        => /\ cache' = cache
           /\ \A i \in 1 .. Len(log'[1]) :
                log'[1][i].op \notin {"read", "write", "delete"}
           /\ fr'[1].pc = "done" => Count(log'[1], "exchange") >= 1 ]_vars

\* Token("", ...) got a token from the exchange with a cache configured that
\* holds an entry, and the cache is as it was
C3_Witness ==
    /\ fr[1].pc = "done" /\ fr[1].entry = "Token" /\ fr[1].key = ""
    /\ c.Cache /\ DOMAIN cache # {}
    /\ fr[1].rErr = Nil /\ fr[1].rToken \in Tokens
    /\ Count(log[1], "exchange") = 1

(***************************************************************************)
(* C4.  A transport error of the downstream call, at the first invocation  *)
(* or inside the retry loop, ends the request at once: the invocation is   *)
(* the last operation of the call, and its error is what the call returns. *)
(***************************************************************************)
C4_TransportErrorEndsRequest ==
    LET f == fr[1]
        l == log[1]
    IN  \A i \in 1 .. Len(l) :
            (l[i].op = "exec" /\ l[i].n = 0)
            => /\ i = Len(l)
               /\ f.pc = "done"
               /\ f.rErr = <<ExecError>>
               /\ f.rResp = Nil

\* the second invocation, inside the retry loop, failed with a transport error
C4_Witness ==
    /\ fr[1].pc = "done" /\ IsRequest(fr[1])
    /\ Ns(SelectOp(log[1], "exec")) = <<StatusUnauthorized, 0>>
    /\ Count(log[1], "sleep") = 1
    /\ fr[1].rErr = <<ExecError>>

(***************************************************************************)
(* C5.  In the unauthorized-retry loop the eviction makes the token fetch  *)
(* that follows it bypass the cache: the Token call made right after an    *)
(* eviction gets nothing from the cache (its cache read, if it makes one,  *)
(* returns nothing) and goes on to invoke the exchanger. Stated for every  *)
(* caller of two that run concurrently on the same cache, caller key and   *)
(* scopes.                                                                 *)
(***************************************************************************)
C5_EvictionBypassesCache ==
    \A p \in Procs :
        LET l == log[p]
        IN  \A i \in 1 .. Len(l) :
                l[i].op = "delete"
                => \/ Len(l) < i + 2
                   \/ l[i + 2].op = "exchange"
                   \/ /\ l[i + 2].op = "read" /\ l[i + 2].val = Nil
                      /\ Len(l) >= i + 3 => l[i + 3].op = "exchange"

(***************************************************************************)
(* C6.  The token exchange with retry budget r >= 0.  If every attempt     *)
(* fails there are exactly r+1 attempts and exactly r sleeps, of 1, 2, ... *)
(* 2^(r-1) seconds in that order, each sleep right before the retry it     *)
(* belongs to, and the call returns an AuthenticationError with the        *)
(* message of the last attempt's error.  If an attempt succeeds, no        *)
(* attempt and no sleep follow it.                                         *)
(***************************************************************************)
RECURSIVE Attempts(_)
Attempts(r) ==
    IF r = 0 THEN <<"exchange">>
    ELSE Attempts(r - 1) \o <<"sleep", "exchange">>

C6_ExchangeRetrySchedule ==
    LET f == fr[1]
        l == log[1]
        X == SelectOp(l, "exchange")
        r == f.arg
    IN  (f.entry = "Token" /\ r >= 0)
        => /\ ( /\ f.pc = "done" /\ Len(X) >= 1
                /\ \A i \in 1 .. Len(X) : X[i].val = Nil )
              => /\ Len(X) = r + 1
                 /\ Ns(SelectOp(l, "sleep")) = Powers(r)
                 /\ \/ Kinds(l) = <<"Token">> \o Attempts(r)
                    \/ Kinds(l) = <<"Token", "read">> \o Attempts(r)
                 /\ f.rErr = <<AuthenticationError(X[r + 1].key)>>
                 /\ f.rToken = ""
           /\ \A i \in 1 .. Len(l) :
                (l[i].op = "exchange" /\ l[i].val # Nil)
                => \A j \in i + 1 .. Len(l) : l[j].op \notin {"exchange", "sleep"}

\* Token with numRetry 2 failed three times, slept 1 s and 2 s, and returned
\* the error of the third attempt, which differs from that of the first
C6_Witness ==
    LET X == SelectOp(log[1], "exchange")
    IN  /\ fr[1].pc = "done" /\ fr[1].entry = "Token" /\ fr[1].arg = 2
        /\ Len(X) = 3 /\ \A i \in 1 .. 3 : X[i].val = Nil
        /\ X[1].key # X[3].key
        /\ Ns(SelectOp(log[1], "sleep")) = <<1, 2>>
        /\ fr[1].rErr = <<AuthenticationError(X[3].key)>>

(***************************************************************************)
(* C7.  An unauthorized response after the retries are used up is          *)
(* returned, not turned into an error: when the exchanges succeed and      *)
(* every downstream invocation answers 401, a request with numRetry n >= 0 *)
(* makes exactly n+1 invocations and returns the last 401 response with a  *)
(* nil error.                                                              *)
(***************************************************************************)
C7_ExhaustedRetriesReturn401 ==
    LET f == fr[1]
        l == log[1]
        E == SelectOp(l, "exec")
    IN  ( /\ f.pc = "done" /\ IsRequest(f) /\ f.numRetry >= 0
          /\ ExchangesSucceed(l)
          /\ \A i \in 1 .. Len(E) : E[i].n = StatusUnauthorized )
        => /\ Len(E) = f.numRetry + 1
           /\ f.rResp = <<[StatusCode |-> StatusUnauthorized, seq |-> f.numRetry + 1]>>
           /\ f.rErr = Nil

\* numRetry 2, three invocations, all answered 401: the third is returned
C7_Witness ==
    /\ fr[1].pc = "done" /\ fr[1].entry = "RequestWithCustomRetry"
    /\ fr[1].numRetry = 2
    /\ ExchangesSucceed(log[1])
    /\ Ns(SelectOp(log[1], "exec")) =
         <<StatusUnauthorized, StatusUnauthorized, StatusUnauthorized>>
    /\ fr[1].rResp = <<[StatusCode |-> StatusUnauthorized, seq |-> 3]>>
    /\ fr[1].rErr = Nil

(***************************************************************************)
(* C8.  RequestWithCustomRetry with numRetry = 0 never enters the retry    *)
(* loop: a 401 from the first downstream invocation is returned as it is,  *)
(* with a nil error, after exactly one call of Token, exactly one          *)
(* invocation, no sleep and no eviction.                                   *)
(***************************************************************************)
C8_ZeroRetryReturnsFirst401 ==
    LET f == fr[1]
        l == log[1]
        E == SelectOp(l, "exec")
    IN  ( /\ f.entry = "RequestWithCustomRetry" /\ f.arg = 0
          /\ Len(E) >= 1 /\ E[1].n = StatusUnauthorized )
        => /\ f.pc = "done"
           /\ Len(E) = 1
           /\ Count(l, "Token") = 1
           /\ Count(l, "sleep") = 0
           /\ Count(l, "delete") = 0
           /\ f.rResp = <<[StatusCode |-> StatusUnauthorized, seq |-> 1]>>
           /\ f.rErr = Nil

\* numRetry 0 with a cache and a caller key: the 401 came back after one
\* invocation
C8_Witness ==
    /\ fr[1].pc = "done" /\ fr[1].entry = "RequestWithCustomRetry" /\ fr[1].arg = 0
    /\ c.Cache /\ fr[1].key # ""
    /\ Ns(SelectOp(log[1], "exec")) = <<StatusUnauthorized>>
    /\ fr[1].rResp = <<[StatusCode |-> StatusUnauthorized, seq |-> 1]>>

(***************************************************************************)
(* C9.  A response with a status other than 401 (502, say) is returned on  *)
(* the first attempt whatever numRetry is: the first invocation is the     *)
(* only one and the last operation of the request, which made one call of  *)
(* Token, no unauthorized-retry sleep and no eviction, and returns that    *)
(* response with a nil error.                                              *)
(***************************************************************************)
C9_OtherStatusReturnedAtOnce ==
    LET f == fr[1]
        l == log[1]
        E == SelectOp(l, "exec")
    IN  ( /\ IsRequest(f)
          /\ Len(E) >= 1 /\ E[1].n \notin {StatusUnauthorized, 0} )
        => /\ f.pc = "done"
           /\ Len(E) = 1 /\ l[Len(l)].op = "exec"
           /\ Count(l, "Token") = 1
           /\ Count(l, "delete") = 0
           /\ \A i \in 1 .. Len(l) : ~(l[i].op = "sleep" /\ l[i].key = "401")
           /\ f.rResp = <<[StatusCode |-> E[1].n, seq |-> 1]>>
           /\ f.rErr = Nil

\* numRetry 2 with a cache and a caller key: the 502 came back at once
C9_Witness ==
    /\ fr[1].pc = "done" /\ fr[1].entry = "RequestWithCustomRetry" /\ fr[1].numRetry = 2
    /\ c.Cache /\ fr[1].key # ""
    /\ Ns(SelectOp(log[1], "exec")) = <<502>>
    /\ fr[1].rResp = <<[StatusCode |-> 502, seq |-> 1]>>

(***************************************************************************)
(* C10.  After a successful exchange with a non-empty token, with caching  *)
(* enabled and a non-empty caller key, Token writes the token under        *)
(* cacheKey(callerKey, scopes): with TTL 0 (no expiration) when the expiry *)
(* is zero; with TTL Unix(expiry) - Unix(now) seconds when the expiry is   *)
(* set and that difference is not negative; and it writes nothing when the *)
(* difference is negative.  In all three cases the token is returned with  *)
(* a nil error.                                                            *)
(***************************************************************************)
C10_CacheWriteTTL ==
    [][ LET f == fr[1]
            g == fr'[1]
            tok == f.oToken[1]
            k == cacheKey(f.key, f.scopes)
            d == (tok.Expiry.wall \div TicksPerSecond) - (now' \div TicksPerSecond)
            Wrote(ttl) ==
                log'[1] = Append(log[1], Ev("write", k, <<tok.AccessToken>>, ttl))
        IN  \* the clock is read (now' is the reading) and the TTL computed
            /\ ( /\ f.pc = "Token_store" /\ g.pc # "Token_store"
                 /\ f.oErr = Nil /\ tok.AccessToken # ""
                 /\ c.Cache /\ f.key # "" )
               => /\ g.pc = "Token_write"
                  /\ g.expiresIn = (IF tok.Expiry.zero THEN 0 ELSE d)
                  /\ log' = log /\ cache' = cache
            \* the write with that TTL, or none, and the return
            /\ (f.pc = "Token_write" /\ g.pc # "Token_write")
               => /\ f.expiresIn >= 0 => Wrote(f.expiresIn)
                  /\ f.expiresIn < 0 => (log' = log /\ cache' = cache)
                  /\ IF f.entry = "Token"
                     THEN g.pc = "done" /\ g.rToken = tok.AccessToken /\ g.rErr = Nil
                     ELSE g.pc = "exec" /\ g.token = tok.AccessToken ]_vars

\* Token cached the exchanged token for one second and returned it
C10_Witness ==
    LET l == log[1]
    IN  /\ fr[1].pc = "done" /\ fr[1].entry = "Token" /\ fr[1].rErr = Nil
        /\ l[Len(l)].op = "write" /\ l[Len(l)].n = 1
        /\ l[Len(l)].val = <<fr[1].rToken>>
        /\ l[Len(l)].key = cacheKey(fr[1].key, fr[1].scopes)


\* the messages of the transport errors of the exchange
TransportMsgs == {e.msg : e \in {x \in ExchangeErrors : x.kind = "transport"}}

(***************************************************************************)
(* C11.  As claimed: a transport error of an exchange attempt is           *)
(* propagated at once and never retried, so no exchange attempt and no     *)
(* sleep follows it, whatever the retry budget.                            *)
(***************************************************************************)
C11_TransportErrorNotRetried ==
    LET l == log[1]
    IN  \A i \in 1 .. Len(l) :
            (l[i].op = "exchange" /\ l[i].val = Nil /\ l[i].key \in TransportMsgs)
            => \A j \in i + 1 .. Len(l) : l[j].op \notin {"exchange", "sleep"}

(***************************************************************************)
(* C11, amended.  oauthToken treats a transport error of an exchange       *)
(* attempt like any other error of it.  In Token with retry budget r >= 0, *)
(* while fewer than r+1 attempts have been made the failure is followed by *)
(* the backoff sleep and one more attempt; after attempt r+1 (the only     *)
(* attempt when r = 0) nothing follows, and Token returns an               *)
(* AuthenticationError with the transport error's message.                 *)
(***************************************************************************)
C11_TransportErrorRetriedLikeAny ==
    LET f == fr[1]
        l == log[1]
        r == f.arg
    IN  (f.entry = "Token" /\ r >= 0)
        => \A i \in 1 .. Len(l) :
            (l[i].op = "exchange" /\ l[i].val = Nil /\ l[i].key \in TransportMsgs)
            => LET a == Count(SubSeq(l, 1, i), "exchange")
               IN  IF a <= r
                   THEN /\ f.pc = "done" => Len(l) >= i + 2
                        /\ Len(l) >= i + 1 =>
                             l[i + 1] = Ev("sleep", "exchange", Nil, 2 ^ (a - 1))
                        /\ Len(l) >= i + 2 => l[i + 2].op = "exchange"
                   ELSE /\ a = r + 1
                        /\ i = Len(l)
                        /\ f.pc = "done" =>
                             /\ f.rToken = ""
                             /\ f.rErr = <<AuthenticationError(l[i].key)>>

\* Token with numRetry 2: the first attempt failed in the transport, was slept
\* on and retried, and the second attempt returned a token
C11_Witness ==
    LET l == log[1]
        X == SelectOp(l, "exchange")
    IN  /\ fr[1].pc = "done" /\ fr[1].entry = "Token" /\ fr[1].arg = 2
        /\ Len(X) = 2
        /\ X[1].val = Nil /\ X[1].key \in TransportMsgs
        /\ X[2].val # Nil
        /\ Ns(SelectOp(l, "sleep")) = <<1>>
        /\ fr[1].rErr = Nil /\ fr[1].rToken = X[2].val[1]


(***************************************************************************)
(* C12.  A negative numRetry is the client's MaxRetry.  A call of          *)
(* RequestWithCustomRetry with numRetry < 0 starts as Request starts, that *)
(* is as RequestWithCustomRetry(key, scopes, MaxRetry, exec): the loop     *)
(* budget and the budget handed to Token are MaxRetry.  In every call      *)
(* entered with numRetry < 0 the exchange runs with the budget MaxRetry,   *)
(* as in Token(key, scopes, MaxRetry).  So the call makes the operations   *)
(* of the MaxRetry call: at most MaxRetry+1 exchange attempts in the first *)
(* Token call and at most MaxRetry+1 invocations, exactly as many with the *)
(* sleeps 1, 2, .., 2^(MaxRetry-1) when every attempt fails or every       *)
(* answer is 401.                                                          *)
(***************************************************************************)
C12_NegativeRetryIsMaxRetry ==
    LET f == fr[1]
        l == log[1]
        m == c.MaxRetry
        X == SelectOp(l, "exchange")
        E == SelectOp(l, "exec")
    IN  (f.pc # "idle" /\ f.arg < 0 /\ f.entry # "Request")
        => /\ IsRequest(f) =>
                /\ f.numRetry = m
                /\ l[1] = Ev("Token", f.key, Nil, m)
                /\ Len(E) <= m + 1
                /\ Count(l, "delete") <= m
                /\ (f.pc = "done" /\ f.rErr = Nil /\ ExchangesSucceed(l)
                    /\ \A i \in 1 .. Len(E) : E[i].n = StatusUnauthorized)
                   => /\ Len(E) = m + 1
                      /\ Ns(SelectSeq(l, LAMBDA e : e.op = "sleep" /\ e.key = "401"))
                           = Powers(m)
           /\ f.pc \in {"oauthToken_sleep", "oauthToken_retry"} =>
                f.oNumRetry = (IF f.inLoop THEN 0 ELSE m)
           /\ f.entry = "Token" =>
                /\ Len(X) <= m + 1
                /\ (f.pc = "done" /\ Len(X) > 0
                    /\ \A i \in 1 .. Len(X) : X[i].val = Nil)
                   => /\ Len(X) = m + 1
                      /\ Ns(SelectOp(l, "sleep")) = Powers(m)
                      /\ f.rErr # Nil

\* RequestWithCustomRetry(-1) of a client with MaxRetry = MaxNumRetry that was
\* answered 401 every time: MaxNumRetry+1 invocations, as Request makes
C12_Witness ==
    LET f == fr[1]
        E == SelectOp(log[1], "exec")
    IN  /\ f.pc = "done" /\ f.entry = "RequestWithCustomRetry" /\ f.arg < 0
        /\ c.MaxRetry = MaxNumRetry
        /\ f.rErr = Nil
        /\ Len(E) = MaxNumRetry + 1
        /\ \A i \in 1 .. Len(E) : E[i].n = StatusUnauthorized


(***************************************************************************)
(* Reading the cache keys of two callers.                                  *)
(***************************************************************************)
\* caller p has computed its cache key (Token reads the cache under it first)
HasKey(p) == Len(log[p]) >= 2 /\ log[p][2].op = "read"
KeyOf(p) == log[p][2].key
\* <scope1>_<scope2>_..., built from the left
RECURSIVE Underscored(_)
Underscored(s) ==
    IF Len(s) = 1 THEN s[1]
    ELSE Underscored(SubSeq(s, 1, Len(s) - 1)) \o "_" \o s[Len(s)]
\* the key that the format <root>/<class>/<key>[/<scope1>_<scope2>_...] gives
KeyFormat(key, scopes) ==
    c.CacheRoot \o "/" \o c.cacheType \o "/" \o key
        \o (IF scopes = << >> THEN "" ELSE "/" \o Underscored(scopes))
\* t holds the scopes of s in another order
IsReordering(s, t) ==
    /\ s # t
    /\ Len(s) = Len(t)
    /\ \E f \in [1 .. Len(s) -> 1 .. Len(s)] :
        /\ \A i, j \in 1 .. Len(s) : f[i] = f[j] => i = j
        /\ \A i \in 1 .. Len(s) : t[i] = s[f[i]]

(***************************************************************************)
(* C13.  The cache key of (key, scopes) is <root>/<class>/<key>, followed  *)
(* by /<scope1>_<scope2>_... when there are scopes; the same inputs give   *)
(* the same key; and the same scopes in another order give another key.    *)
(***************************************************************************)
C13_CacheKeyOrderSensitive ==
    \A p, q \in Procs :
        (HasKey(p) /\ HasKey(q))
        => /\ KeyOf(p) = KeyFormat(fr[p].key, fr[p].scopes)
           /\ (fr[p].key = fr[q].key /\ fr[p].scopes = fr[q].scopes)
              => KeyOf(p) = KeyOf(q)
           /\ (fr[p].key = fr[q].key /\ IsReordering(fr[p].scopes, fr[q].scopes))
              => KeyOf(p) # KeyOf(q)


(***************************************************************************)
(* Reading how the unauthorized-retry loop of a request ended.             *)
(***************************************************************************)
\* the loop has begun and the request has returned
LoopEnded(f) == IsRequest(f) /\ f.inLoop /\ f.pc = "done"
\* the iterations begun: each starts with its sleep
Iterations(l) == Len(SelectSeq(l, LAMBDA e : e.op = "sleep" /\ e.key = "401"))
\* a response that is not a 401 came back
EndedByResponse(f, l) ==
    /\ f.rErr = Nil /\ f.rResp # Nil
    /\ f.rResp[1].StatusCode # StatusUnauthorized
\* the retry count ran out on a 401
EndedByExhaustion(f, l) ==
    /\ f.rErr = Nil /\ f.rResp # Nil
    /\ f.rResp[1].StatusCode = StatusUnauthorized
    /\ Iterations(l) = f.numRetry
\* the downstream call failed in the transport
EndedByTransportError(f, l) ==
    /\ f.rErr = <<ExecError>>
    /\ l[Len(l)].op = "exec" /\ l[Len(l)].n = 0
\* the token fetch of an iteration failed
EndedByTokenFailure(f, l) ==
    /\ f.rErr # Nil /\ f.rErr[1].kind = "AuthenticationError"
    /\ l[Len(l)].op # "exec"
    /\ f.rResp # Nil /\ f.rResp[1].StatusCode = StatusUnauthorized
    /\ Count(l, "exec") = Iterations(l)
OneIfTrue(b) == IF b THEN 1 ELSE 0

(***************************************************************************)
(* C14.  As claimed: a loop that has begun ends in exactly one of three    *)
(* ways, a response that is not a 401, the retry count exhausted or a      *)
(* transport error of the downstream call, and in no other way, after at   *)
(* most numRetry iterations.                                               *)
(***************************************************************************)
C14_LoopEndsInThreeWays ==
    LET f == fr[1]
        l == log[1]
    IN  LoopEnded(f)
        => /\ OneIfTrue(EndedByResponse(f, l)) + OneIfTrue(EndedByExhaustion(f, l))
              + OneIfTrue(EndedByTransportError(f, l)) = 1
           /\ Iterations(l) <= f.numRetry

(***************************************************************************)
(* C14, amended.  A loop that has begun runs to completion: the request    *)
(* returns.  It ends in exactly one of four ways: a response that is not a *)
(* 401, the retry count exhausted, a transport error of the downstream     *)
(* call, or a failure of the token fetch of an iteration (returned with    *)
(* the last 401 response).  It makes at most numRetry iterations.          *)
(***************************************************************************)
C14_LoopEndsInFourWays ==
    /\ [](LET f == fr[1]
              l == log[1]
          IN  /\ (IsRequest(f) /\ f.inLoop) =>
                    /\ Iterations(l) <= f.numRetry
                    /\ f.retry < f.numRetry
              /\ LoopEnded(f) =>
                    /\ OneIfTrue(EndedByResponse(f, l))
                       + OneIfTrue(EndedByExhaustion(f, l))
                       + OneIfTrue(EndedByTransportError(f, l))
                       + OneIfTrue(EndedByTokenFailure(f, l)) = 1
                    /\ Iterations(l) >= 1)
    /\ ((IsRequest(fr[1]) /\ fr[1].inLoop) ~> (fr[1].pc = "done"))

\* a loop of MaxNumRetry iterations that ended with the retry count exhausted
C14_Witness ==
    /\ LoopEnded(fr[1])
    /\ fr[1].numRetry = MaxNumRetry
    /\ Iterations(log[1]) = MaxNumRetry
    /\ EndedByExhaustion(fr[1], log[1])


(***************************************************************************)
(* C15.  The token fetches inside the unauthorized-retry loop are made     *)
(* with retry budget 0: each iteration makes at most one exchange attempt  *)
(* and no exchange-retry sleep.  A request with numRetry n makes at most   *)
(* (n+1)+n exchange attempts and at most n+1 downstream invocations.       *)
(* An exchange attempt is a retry when it follows a sleep and not the      *)
(* entry of Token or its cache read: retries and their sleeps come before  *)
(* the first invocation only, and at most n+1 attempts do.                 *)
(***************************************************************************)
C15_LoopFetchesDoNotRetry ==
    LET f == fr[1]
        l == log[1]
        n == f.numRetry
        BeforeFirstExec(i) == \A j \in 1 .. i : l[j].op # "exec"
    IN  (IsRequest(f) /\ f.pc # "idle")
        => /\ \A i \in 2 .. Len(l) :
                /\ l[i].op = "Token" => l[i].n = 0
                /\ (l[i].op = "exchange" /\ l[i - 1].op \notin {"Token", "read"})
                   => BeforeFirstExec(i)
                /\ (l[i].op = "read" /\ l[i - 1].op # "Token") => FALSE
                /\ (l[i].op = "sleep" /\ l[i].key = "exchange")
                   => BeforeFirstExec(i)
           /\ f.execs = 0 => Count(l, "exchange") <= n + 1
           /\ Count(l, "exchange") <= (n + 1) + n
           /\ Count(l, "exec") <= n + 1

\* a request with numRetry MaxNumRetry that used every attempt: MaxNumRetry+1
\* exchange attempts in the first fetch, one in each of the MaxNumRetry
\* iterations, MaxNumRetry+1 invocations
C15_Witness ==
    LET f == fr[1]
        l == log[1]
    IN  /\ IsRequest(f) /\ f.pc = "done"
        /\ f.numRetry = MaxNumRetry
        /\ Count(l, "delete") + Count(l, "exec") >= MaxNumRetry + 1
        /\ Count(l, "exchange") = (MaxNumRetry + 1) + MaxNumRetry
        /\ Count(l, "exec") = MaxNumRetry + 1

(***************************************************************************)
(* C16.  When Token returns an error, the error is an AuthenticationError, *)
(* the token returned is empty and the call has issued no write and no     *)
(* delete to the cache, which is as the call found it.                     *)
(* Every value that a token fetch writes to the cache is the non-empty     *)
(* access token of the successful exchange attempt just before.  With      *)
(* only non-empty tokens in the cache, Token never returns an empty token  *)
(* with a nil error.                                                       *)
(***************************************************************************)
C16_TokenErrorsAndWrites ==
    LET f == fr[1]
        l == log[1]
    IN  /\ (f.entry = "Token" /\ f.pc = "done" /\ f.rErr # Nil)
           => /\ f.rErr[1].kind = "AuthenticationError"
              /\ f.rToken = ""
              /\ Count(l, "write") = 0 /\ Count(l, "delete") = 0
        /\ \A i \in 1 .. Len(l) :
              l[i].op = "write"
              => /\ l[i].val \notin {Nil, <<"">>}
                 /\ i > 1 /\ l[i - 1].op = "exchange" /\ l[i - 1].val = l[i].val
        /\ (f.entry = "Token" /\ f.pc = "done" /\ f.rErr = Nil
            /\ \A k \in DOMAIN cache : cache[k] # "")
           => f.rToken # ""

\* Token with a cache and a key, whose exchange returned an empty access token:
\* "Invalid access token", nothing written
C16_Witness ==
    LET f == fr[1]
        l == log[1]
    IN  /\ f.entry = "Token" /\ f.pc = "done"
        /\ c.Cache /\ f.key # ""
        /\ l[Len(l)] = Ev("exchange", "", <<"">>, 0)
        /\ f.rErr = <<AuthenticationError("Invalid access token")>>
        /\ f.rToken = ""
        /\ Count(l, "write") = 0


(***************************************************************************)
(* C17.  A request with an empty caller key issues no cache operation at   *)
(* all, no read, no write and no delete, even with a cache configured and  *)
(* a 401 answered with numRetry > 0.                                       *)
(***************************************************************************)
C17_EmptyKeyRequestNoCacheOps ==
    LET f == fr[1]
        l == log[1]
    IN  (IsRequest(f) /\ f.key = "")
        => \A i \in 1 .. Len(l) : l[i].op \notin {"read", "write", "delete"}


(***************************************************************************)
(* C18.  Token writes to the cache with TTL 0 only when the expiry of the  *)
(* exchanged token is zero (unset): a token with a set expiry, one that    *)
(* falls in the current second included, is never written with TTL 0.      *)
(***************************************************************************)
C18_SetExpiryNeverTTLZero ==
    [][ LET f == fr[1]
            l == log'[1]
        IN  ( /\ f.pc = "Token_write" /\ fr'[1].pc # "Token_write"
              /\ Len(l) = Len(log[1]) + 1
              /\ l[Len(l)].op = "write" /\ l[Len(l)].n = 0 )
            => IsZero(f.oToken[1].Expiry) ]_vars


(***************************************************************************)
(* C19.  With concurrent requests on the same cache and the same (key,     *)
(* scopes), the eviction of a request removes only the token that this     *)
(* request presented and that was answered 401: an entry that another call *)
(* has exchanged and cached since, and that was never rejected, is not     *)
(* deleted.                                                                *)
(***************************************************************************)
C19_EvictionRemovesOwnToken ==
    [][ \A p \in Procs :
            LET f == fr[p]
                k == cacheKey(f.key, f.scopes)
            IN  ( /\ f.pc = "evict" /\ fr'[p].pc # "evict"
                  /\ k \in DOMAIN cache /\ k \notin DOMAIN cache' )
                => cache[k] = f.token ]_vars


(***************************************************************************)
(* C20.  For a fixed root and class, two different (caller key, scope      *)
(* sequence) pairs never have the same cache key, caller keys with a "/"   *)
(* and scope identifiers with a "_" included: so a token that Token cached *)
(* for one pair is never returned by Token for another pair.               *)
(***************************************************************************)
C20_CacheKeyInjective ==
    \A p, q \in Procs :
        ( /\ HasKey(p) /\ HasKey(q)
          /\ <<fr[p].key, fr[p].scopes>> # <<fr[q].key, fr[q].scopes>> )
        => /\ KeyOf(p) # KeyOf(q)
           /\ \A i \in 1 .. Len(log[p]) :
                log[p][i].op = "write"
                => ~ ( /\ log[q][2].val = log[p][i].val
                       /\ log[q][2].key = log[p][i].key )

====
